---- MODULE Spec2Model ----
(***************************************************************************)
(* Model of mjolnir/transitbuilder.cc: the transit graph integration.      *)
(*                                                                         *)
(* The specifications share the definitions below:                         *)
(*   SpecRewrite - the stop loop of build, then AddToGraph, on one tile;   *)
(*   SpecAnyInput - the same steps from any connection list;               *)
(*   SpecAnyInputFair - the same, every step taken that can be taken;      *)
(*   SpecPairs   - ProcessStopPairs run over the stop pairs of one tile;   *)
(*   SpecOnePair - ProcessStopPairs on a tile of one stop pair at most;    *)
(*   Spec        - TransitBuilder::Build: the partition of the tiles, the   *)
(*                 worker threads, the mutex, the promises and the store.  *)
(***************************************************************************)
EXTENDS Integers, Sequences, FiniteSets, TLC

-----------------------------------------------------------------------------
(* Bounds of the model *)

\* road nodes of the tile being rewritten
MaxNodes == 2
\* directed edges leaving one road node
MaxEdgeCount == 2
\* sign records plus access-restriction records of the tile
MaxRefs == 2
\* stops in the transit record of the tile
MaxStops == 2
\* scheduled departures of the tile
MaxDepartures == 2
\* connection edges of one tile
MaxConnections == 3
\* total size of the input of one tile (edges, records, stops, departures)
MaxSize == 4

\* ProcessStopPairs: the stop pairs of a tile, and the calendar days 0..MaxDate
MaxPairs == 2

MaxDate == 1

\* Build: the eligible tiles and the configured concurrency
MaxTiles == 3

MaxConcurrency == 3

-----------------------------------------------------------------------------
(* GraphId *)

\* The tile hierarchy level is the same (the local level) for every id the
\* builder handles, so an id is modelled by its tile and its index.
GraphId(t, i) == [tileid |-> t, id |-> i]

Invalid == [tileid |-> -1, id |-> -1]

Is_Valid(g) == g # Invalid

Tile_Base(g) == GraphId(g.tileid, 0)

\* std::map<GraphId, ...> order
GraphIdLess(a, b) ==
    \/ a.tileid < b.tileid
    \/ a.tileid = b.tileid /\ a.id < b.id

\* the tile a worker rewrites, and another tile stops may lead to
tile_id == 1
other_tile == 2

\* the way of the road edges of the tile, and a way that has no edge in it
RoadWay == 1
NoWay == 2

GetGraphId_NoOffset(nodeid, counts) ==
    IF nodeid.tileid \in DOMAIN counts
    THEN GraphId(nodeid.tileid, nodeid.id)
    ELSE Invalid

GetGraphId(nodeid, counts) ==
    IF nodeid.tileid \in DOMAIN counts
    THEN GraphId(nodeid.tileid, nodeid.id + counts[nodeid.tileid])
    ELSE Invalid

-----------------------------------------------------------------------------
(* State *)

VARIABLES
    \* ---- one tile's rewrite (AddToGraph) ----
    pc,                 \* position in AddToGraph
    tile_node_counts,   \* tile -> road-node count before the build
    transit,            \* the tile's transit record: stops and routes
    storedtile,         \* the tile as stored before the rewrite
    tilebuilder,        \* GraphTileBuilder: nodes, directededges, signs, restrictions
    connection_edges,   \* sorted OSMConnectionEdge vector
    stop_edge_map,      \* std::map<GraphId, StopEdges>, as its sorted sequence
    currentnodes,       \* AddToGraph local: the nodes moved out of the builder
    currentedges,       \* AddToGraph local: the directed edges moved out
    ag,                 \* AddToGraph locals: cursors and counters
    \* ---- ProcessStopPairs ----
    sp_pc,              \* position in ProcessStopPairs
    tile_date,          \* the tile's creation date, in days from the pivot date
    stop_pairs_size,    \* transit.stop_pairs_size()
    sp_i,               \* the loop index i
    sp,                 \* the stop pair read last
    departures,         \* the multimap of departures, in emplace order
    stop_access,        \* stop -> bikes allowed
    \* ---- TransitBuilder::Build and its worker threads ----
    tiles,              \* tiles.size(): the eligible tiles, 1..tiles in map order
    concurrency,        \* mjolnir.concurrency
    threads,            \* threads.size()
    input,              \* tile -> what reading its transit record will do
    store,              \* tile -> content of the stored tile
    lock,               \* the mutex: 0 when free, else the worker holding it
    results,            \* worker -> state of its promise
    bd,                 \* Build's locals and position
    wk,                 \* worker -> position and range of build
    builder,            \* worker -> content of its GraphTileBuilder
    built_by,           \* tile -> the workers that opened a builder on it
    tb,                 \* worker -> the nodes and transit edges of its builder
    tiledata            \* tile -> the nodes and transit edges of the stored tile

rwVars == <<pc, tile_node_counts, transit, storedtile, tilebuilder,
            connection_edges, stop_edge_map, currentnodes, currentedges, ag>>

spVars == <<sp_pc, tile_date, stop_pairs_size, sp_i, sp, departures, stop_access>>

bdVars == <<tiles, concurrency, threads, input, store, lock, results, bd, wk,
            builder, built_by, tb, tiledata>>

vars == <<rwVars, spVars, bdVars>>

\* The parts of the state a specification leaves alone.
IdleRewrite ==
    /\ pc = "idle"
    /\ tile_node_counts = <<>>
    /\ transit = <<>>
    /\ storedtile = <<>>
    /\ tilebuilder = <<>>
    /\ connection_edges = <<>>
    /\ stop_edge_map = <<>>
    /\ currentnodes = <<>>
    /\ currentedges = <<>>
    /\ ag = <<>>

IdlePairs ==
    /\ sp_pc = "idle"
    /\ tile_date = 0
    /\ stop_pairs_size = 0
    /\ sp_i = 0
    /\ sp = <<>>
    /\ departures = <<>>
    /\ stop_access = <<>>

IdleBuild ==
    /\ tiles = 0
    /\ concurrency = 0
    /\ threads = 0
    /\ input = <<>>
    /\ store = <<>>
    /\ lock = 0
    /\ results = <<>>
    /\ bd = <<>>
    /\ wk = <<>>
    /\ builder = <<>>
    /\ built_by = <<>>
    /\ tb = <<>>
    /\ tiledata = <<>>

-----------------------------------------------------------------------------
(* Records of a tile *)

\* A road node of the stored tile: `ll` stands for its position.
RoadNode(k, first, count) ==
    [ll |-> k, type |-> "StreetIntersection", stop_index |-> 0,
     edge_index |-> first, edge_count |-> count]

\* Edge j of road node k in the stored tile.
RoadEdge(k, j, sign, restriction, endnode) ==
    [endnode |-> endnode, length |-> 1, use |-> "Road",
     lineid |-> 0, localedgeidx |-> j, exitsign |-> sign,
     access_restriction |-> restriction, wayid |-> RoadWay, shape |-> <<k, j>>]

\* Position of a stop: a token per (tile, index).
StopLL(g) == 10 * g.tileid + g.id

Distance(a, b) == IF a < b THEN b - a ELSE a - b

\* A stop of the transit record: its id, its position, the way it is on,
\* and where along the edges of the road tile its position falls.
Stop(g, wayid, near) ==
    [graphid |-> g, ll |-> StopLL(g), osm_way_id |-> wayid, near |-> near]

RECURSIVE SumTo(_, _)
SumTo(f, n) == IF n = 0 THEN 0 ELSE f[n] + SumTo(f, n - 1)

Range(s) == {s[i] : i \in DOMAIN s}

Min(a, b) == IF a < b THEN a ELSE b

Max0(a) == IF a < 0 THEN 0 ELSE a

\* non-decreasing sequences over S of length n
AscSeqs(S, n) ==
    {s \in [1..n -> S] : \A i \in DOMAIN s : \A j \in DOMAIN s : i < j => s[i] <= s[j]}

-----------------------------------------------------------------------------
(* GetTransitUse, GetShape *)

GetTransitUse(rt) == IF rt = 3 THEN "Bus" ELSE "Rail"

GetShape(stop_ll, endstop_ll, shapeid) == <<stop_ll, endstop_ll>>

-----------------------------------------------------------------------------
(* build: unique transit lines per origin stop (the stop loop of build) *)

TransitLine(lineid, routeid, dest, shapeid) ==
    [lineid |-> lineid, routeid |-> routeid, dest_pbf_graphid |-> dest,
     shapeid |-> shapeid]

\* The departures of one stop (`range`), in the order the multimap yields them:
\* a (route, destination) pair not seen at this stop gets the next line id.
RECURSIVE UniqueLines_ByRoute(_, _, _, _)
UniqueLines_ByRoute(range, lines, unique_lineid, tds) ==
    IF range = <<>>
    THEN [lines |-> lines, unique_lineid |-> unique_lineid, tds |-> tds]
    ELSE LET dep == Head(range)
             m == {l \in Range(lines) : l.routeid = dep.route}
         IN  IF m = {}
             THEN UniqueLines_ByRoute(Tail(range),
                      Append(lines, TransitLine(unique_lineid, dep.route,
                                                dep.dest_pbf_graphid, 0)),
                      unique_lineid + 1,
                      Append(tds, [lineid |-> unique_lineid, route |-> dep.route,
                                   origin |-> dep.orig_pbf_graphid]))
             ELSE UniqueLines_ByRoute(Tail(range), lines, unique_lineid,
                      Append(tds, [lineid |-> (CHOOSE l \in m : TRUE).lineid,
                                   route |-> dep.route,
                                   origin |-> dep.orig_pbf_graphid]))

RECURSIVE UniqueLines_OnePerLine(_, _, _, _)
UniqueLines_OnePerLine(range, lines, unique_lineid, tds) ==
    IF range = <<>>
    THEN [lines |-> lines, unique_lineid |-> unique_lineid, tds |-> tds]
    ELSE LET dep == Head(range)
             m == {l \in Range(lines) : /\ l.routeid = dep.route
                                        /\ l.dest_pbf_graphid = dep.dest_pbf_graphid}
         IN  IF m = {}
             THEN UniqueLines_OnePerLine(Tail(range),
                      Append(lines, TransitLine(unique_lineid, dep.route,
                                                dep.dest_pbf_graphid, 0)),
                      unique_lineid + 1,
                      Append(tds, [lineid |-> unique_lineid, route |-> dep.route,
                                   origin |-> dep.orig_pbf_graphid]))
             ELSE UniqueLines_OnePerLine(Tail(range), lines, unique_lineid, tds)

RECURSIVE UniqueLines(_, _, _, _)
UniqueLines(range, lines, unique_lineid, tds) ==
    IF range = <<>>
    THEN [lines |-> lines, unique_lineid |-> unique_lineid, tds |-> tds]
    ELSE LET dep == Head(range)
             m == {l \in Range(lines) :
                       /\ l.routeid = dep.route
                       /\ l.dest_pbf_graphid = dep.dest_pbf_graphid}
         IN  IF m = {}
             THEN UniqueLines(Tail(range),
                      Append(lines, TransitLine(unique_lineid, dep.route,
                                                dep.dest_pbf_graphid, 0)),
                      unique_lineid + 1,
                      Append(tds, [lineid |-> unique_lineid, route |-> dep.route,
                                   origin |-> dep.orig_pbf_graphid]))
             ELSE UniqueLines(Tail(range), lines, unique_lineid,
                      Append(tds, [lineid |-> (CHOOSE l \in m : TRUE).lineid,
                                   route |-> dep.route,
                                   origin |-> dep.orig_pbf_graphid]))

MapInsert_SkipEmpty(m, e) ==
    IF e.lines = <<>> \/ \E x \in Range(m) : x.origin_pbf_graphid = e.origin_pbf_graphid
    THEN m
    ELSE SelectSeq(m, LAMBDA x : GraphIdLess(x.origin_pbf_graphid, e.origin_pbf_graphid))
         \o <<e>>
         \o SelectSeq(m, LAMBDA x : GraphIdLess(e.origin_pbf_graphid, x.origin_pbf_graphid))

\* std::map::insert: keeps the map sorted by key and never replaces an entry.
MapInsert(m, e) ==
    IF \E x \in Range(m) : x.origin_pbf_graphid = e.origin_pbf_graphid
    THEN m
    ELSE SelectSeq(m, LAMBDA x : GraphIdLess(x.origin_pbf_graphid, e.origin_pbf_graphid))
         \o <<e>>
         \o SelectSeq(m, LAMBDA x : GraphIdLess(e.origin_pbf_graphid, x.origin_pbf_graphid))

RECURSIVE FormStopEdges_ResetId(_, _, _, _)
FormStopEdges_ResetId(stops, i, deps, st) ==
    IF i > Len(stops)
    THEN st
    ELSE LET stop_pbf_graphid == stops[i].graphid
             range == SelectSeq(deps,
                                LAMBDA d : d.orig_pbf_graphid = stop_pbf_graphid)
             u == UniqueLines(range, <<>>, 1, st.tds)
             stopedges == [origin_pbf_graphid |-> stop_pbf_graphid,
                           lines |-> u.lines]
         IN  FormStopEdges_ResetId(stops, i + 1, deps,
                 [map |-> MapInsert(st.map, stopedges),
                  unique_lineid |-> u.unique_lineid,
                  tds |-> u.tds])

\* The loop over the stops of the tile: st carries the map, the next line id
\* and the TransitDeparture records added so far.
RECURSIVE FormStopEdges(_, _, _, _)
FormStopEdges(stops, i, deps, st) ==
    IF i > Len(stops)
    THEN st
    ELSE LET stop_pbf_graphid == stops[i].graphid
             range == SelectSeq(deps,
                                LAMBDA d : d.orig_pbf_graphid = stop_pbf_graphid)
             u == UniqueLines(range, <<>>, st.unique_lineid, st.tds)
             stopedges == [origin_pbf_graphid |-> stop_pbf_graphid,
                           lines |-> u.lines]
         IN  FormStopEdges(stops, i + 1, deps,
                 [map |-> MapInsert(st.map, stopedges),
                  unique_lineid |-> u.unique_lineid,
                  tds |-> u.tds])

StopEdgeMap_FromZero(stops, deps) ==
    FormStopEdges(stops, 1, deps,
                  [map |-> <<>>, unique_lineid |-> 0, tds |-> <<>>])

\* unique_lineid = 1 (line 903) and the loop of lines 915-975
StopEdgeMap(stops, deps) ==
    FormStopEdges(stops, 1, deps,
                  [map |-> <<>>, unique_lineid |-> 1, tds |-> <<>>])

\* Lines 872-979 of build, the call of ProcessStopPairs apart: a TransitStop
\* per stop, the lines and a TransitDeparture per departure of each stop, and a
\* TransitRoute per route go into the builder; stop_edge_map is formed.
BuildStops ==
    /\ pc = "build"
    /\ LET r == StopEdgeMap(transit.stops, departures)
       IN  /\ stop_edge_map' = r.map
           /\ tilebuilder' = [tilebuilder EXCEPT
                  !.transitdepartures = @ \o r.tds,
                  !.transitroutes = @ \o [i \in DOMAIN transit.routes |->
                                            [route |-> i - 1]]]
    /\ pc' = "AddToGraph"
    /\ UNCHANGED <<tile_node_counts, transit, storedtile, connection_edges,
                   currentnodes, currentedges, ag>>
    /\ UNCHANGED <<spVars, bdVars>>

-----------------------------------------------------------------------------
(* AddToGraph *)

\* The cursor loop that re-indexes the sign (or access restriction) records
\* that use original edge idx: recs are the records' edge indexes, cur the
\* cursor (signidx), next the edge index the cursor waits for (nextsignidx).
RECURSIVE UpdateEdgeIndexes_NoShift(_, _, _, _, _)
UpdateEdgeIndexes_NoShift(recs, cur, next, idx, added_edges) ==
    IF idx = next /\ cur < Len(recs)
    THEN LET cur1 == cur + 1
         IN  UpdateEdgeIndexes_NoShift([recs EXCEPT ![cur + 1] = idx], cur1,
                 IF cur1 >= Len(recs) THEN 0 ELSE recs[cur1 + 1],
                 idx, added_edges)
    ELSE [recs |-> recs, cur |-> cur, next |-> next]

RECURSIVE UpdateEdgeIndexes(_, _, _, _, _)
UpdateEdgeIndexes(recs, cur, next, idx, added_edges) ==
    IF idx = next /\ cur < Len(recs)
    THEN LET cur1 == cur + 1
         IN  UpdateEdgeIndexes([recs EXCEPT ![cur + 1] = idx + added_edges], cur1,
                 IF cur1 >= Len(recs) THEN 0 ELSE recs[cur1 + 1],
                 idx, added_edges)
    ELSE [recs |-> recs, cur |-> cur, next |-> next]

\* The inner for loop of the road-node pass: copy edge_count edges of the node
\* starting at original index idx, fixing the records that use each of them.
RECURSIVE CopyEdges_SameEdge(_, _, _, _, _)
CopyEdges_SameEdge(st, edges, idx, n, added_edges) ==
    IF n = 0
    THEN st
    ELSE LET s == UpdateEdgeIndexes(st.signs, st.signidx, st.nextsignidx,
                                    idx, added_edges)
             r == UpdateEdgeIndexes(st.restrictions, st.residx, st.nextresidx,
                                    idx, added_edges)
         IN  CopyEdges_SameEdge(
                       [directededges |-> Append(st.directededges, edges[idx + n]),
                        signs |-> s.recs, signidx |-> s.cur, nextsignidx |-> s.next,
                        restrictions |-> r.recs, residx |-> r.cur,
                        nextresidx |-> r.next],
                       edges, idx + 1, n - 1, added_edges)

RECURSIVE CopyEdges(_, _, _, _, _)
CopyEdges(st, edges, idx, n, added_edges) ==
    IF n = 0
    THEN st
    ELSE LET s == UpdateEdgeIndexes(st.signs, st.signidx, st.nextsignidx,
                                    idx, added_edges)
             r == UpdateEdgeIndexes(st.restrictions, st.residx, st.nextresidx,
                                    idx, added_edges)
         IN  CopyEdges([directededges |-> Append(st.directededges, edges[idx + 1]),
                        signs |-> s.recs, signidx |-> s.cur, nextsignidx |-> s.next,
                        restrictions |-> r.recs, residx |-> r.cur,
                        nextresidx |-> r.next],
                       edges, idx + 1, n - 1, added_edges)

\* Lines 383-410: move the nodes and edges out of the builder, set the cursors.
Snapshot ==
    /\ pc = "AddToGraph"
    /\ currentnodes' = tilebuilder.nodes
    /\ currentedges' = tilebuilder.directededges
    /\ tilebuilder' = [tilebuilder EXCEPT !.nodes = <<>>, !.directededges = <<>>]
    /\ ag' = [ag EXCEPT
                !.signidx = 0,
                !.nextsignidx = IF Len(tilebuilder.signs) > 0
                                THEN tilebuilder.signs[1]
                                ELSE Len(tilebuilder.directededges) + 1,
                !.residx = 0,
                !.nextresidx = IF Len(tilebuilder.restrictions) > 0
                               THEN tilebuilder.restrictions[1]
                               ELSE Len(tilebuilder.directededges) + 1,
                !.nodeid = 0,
                !.added_edges = 0]
    /\ pc' = "nodes"
    /\ UNCHANGED <<tile_node_counts, transit, storedtile, connection_edges,
                   stop_edge_map>>
    /\ UNCHANGED <<spVars, bdVars>>

\* Lines 412-446: the next road node's stored edges go back in.
RoadNodeEdges ==
    /\ pc = "nodes"
    /\ ag.nodeid < Len(currentnodes)
    /\ LET nb == currentnodes[ag.nodeid + 1]
           st == CopyEdges([directededges |-> tilebuilder.directededges,
                            signs |-> tilebuilder.signs,
                            signidx |-> ag.signidx,
                            nextsignidx |-> ag.nextsignidx,
                            restrictions |-> tilebuilder.restrictions,
                            residx |-> ag.residx,
                            nextresidx |-> ag.nextresidx],
                           currentedges, nb.edge_index, nb.edge_count,
                           ag.added_edges)
       IN  /\ tilebuilder' = [tilebuilder EXCEPT
                                !.directededges = st.directededges,
                                !.signs = st.signs,
                                !.restrictions = st.restrictions]
           /\ ag' = [ag EXCEPT
                       !.edge_index = Len(tilebuilder.directededges),
                       !.signidx = st.signidx,
                       !.nextsignidx = st.nextsignidx,
                       !.residx = st.residx,
                       !.nextresidx = st.nextresidx]
    /\ pc' = "connections"
    /\ UNCHANGED <<tile_node_counts, transit, storedtile, connection_edges,
                   stop_edge_map, currentnodes, currentedges>>
    /\ UNCHANGED <<spVars, bdVars>>

\* The condition of the while loop of lines 450-451.
HeadConnectionHere ==
    /\ ag.added_edges < Len(connection_edges)
    /\ connection_edges[ag.added_edges + 1].osm_node.id = ag.nodeid

\* Lines 452-482: one turn of the while loop. When the stop's tile is not in
\* tile_node_counts the turn ends in `continue` with nothing changed.
ConnectionEdge ==
    /\ pc = "connections"
    /\ HeadConnectionHere
    /\ LET conn == connection_edges[ag.added_edges + 1]
           endnode == GetGraphId(conn.stop_node, tile_node_counts)
       IN  IF ~Is_Valid(endnode)
           THEN UNCHANGED <<tilebuilder, ag>>
           ELSE /\ tilebuilder' = [tilebuilder EXCEPT !.directededges =
                      Append(@, [endnode |-> endnode,
                                 length |-> conn.length,
                                 use |-> "TransitConnection",
                                 lineid |-> 0,
                                 localedgeidx |-> Len(tilebuilder.directededges)
                                                  - ag.edge_index,
                                 exitsign |-> FALSE,
                                 access_restriction |-> FALSE,
                                 wayid |-> 0,
                                 shape |-> conn.shape])]
                /\ ag' = [ag EXCEPT !.added_edges = @ + 1]
    /\ UNCHANGED <<pc, tile_node_counts, transit, storedtile, connection_edges,
                   stop_edge_map, currentnodes, currentedges>>
    /\ UNCHANGED <<spVars, bdVars>>

\* Lines 485-489: the road node goes back in with its new edge range.
RoadNodeDone_OldCount ==
    /\ pc = "connections"
    /\ ~HeadConnectionHere
    /\ tilebuilder' = [tilebuilder EXCEPT !.nodes =
          Append(@, [currentnodes[ag.nodeid + 1] EXCEPT
                        !.edge_index = ag.edge_index])]
    /\ ag' = [ag EXCEPT !.nodeid = @ + 1]
    /\ pc' = "nodes"
    /\ UNCHANGED <<tile_node_counts, transit, storedtile, connection_edges,
                   stop_edge_map, currentnodes, currentedges>>
    /\ UNCHANGED <<spVars, bdVars>>

RoadNodeDone ==
    /\ pc = "connections"
    /\ ~HeadConnectionHere
    /\ tilebuilder' = [tilebuilder EXCEPT !.nodes =
          Append(@, [currentnodes[ag.nodeid + 1] EXCEPT
                        !.edge_index = ag.edge_index,
                        !.edge_count = Len(tilebuilder.directededges)
                                       - ag.edge_index])]
    /\ ag' = [ag EXCEPT !.nodeid = @ + 1]
    /\ pc' = "nodes"
    /\ UNCHANGED <<tile_node_counts, transit, storedtile, connection_edges,
                   stop_edge_map, currentnodes, currentedges>>
    /\ UNCHANGED <<spVars, bdVars>>

\* Lines 490-499: the road-node pass is over.
RoadNodesDone ==
    /\ pc = "nodes"
    /\ ag.nodeid >= Len(currentnodes)
    /\ ag' = [ag EXCEPT !.nadded = 0, !.stop = 1]
    /\ pc' = "stops"
    /\ UNCHANGED <<tile_node_counts, transit, storedtile, tilebuilder,
                   connection_edges, stop_edge_map, currentnodes, currentedges>>
    /\ UNCHANGED <<spVars, bdVars>>

\* Lines 540-541: the linear search for the connections of one stop.
ConnectionsOfStop_FirstOnly(conns, stopid) ==
    LET found == SelectSeq(conns, LAMBDA c : c.stop_node = stopid)
    IN  IF found = <<>> THEN <<>> ELSE <<Head(found)>>

ConnectionsOfStop(conns, stopid) ==
    SelectSeq(conns, LAMBDA c : c.stop_node = stopid)

RECURSIVE LinesWithEndNode_Break(_, _)
LinesWithEndNode_Break(lines, counts) ==
    IF lines = <<>> \/ ~Is_Valid(GetGraphId(Head(lines).dest_pbf_graphid, counts))
    THEN <<>>
    ELSE <<Head(lines)>> \o LinesWithEndNode_Break(Tail(lines), counts)

\* Lines 616-622: the lines of a stop that get an edge; a line whose end node
\* is not valid is passed over (`continue`) and the loop goes on.
LinesWithEndNode(lines, counts) ==
    SelectSeq(lines, LAMBDA l : Is_Valid(GetGraphId(l.dest_pbf_graphid, counts)))

\* Lines 500-684: one stop of stop_edge_map becomes a transit node with its
\* edges: first the connections back to the road nodes, then the lines.
TransitNode ==
    /\ pc = "stops"
    /\ ag.stop <= Len(stop_edge_map)
    /\ LET stop_edges == stop_edge_map[ag.stop]
           stopid == stop_edges.origin_pbf_graphid
           stop_index == stopid.id
           stop == transit.stops[stop_index + 1]
           origin_node == GetGraphId(stopid, tile_node_counts)
           edge_index == Len(tilebuilder.directededges)
           conns == ConnectionsOfStop(connection_edges, stopid)
           lines == LinesWithEndNode(stop_edges.lines, tile_node_counts)
           endll(l) == IF Tile_Base(l.dest_pbf_graphid) = GraphId(tile_id, 0)
                       THEN transit.stops[l.dest_pbf_graphid.id + 1].ll
                       ELSE StopLL(l.dest_pbf_graphid)
           connedges == [i \in 1..Len(conns) |->
                           [endnode |-> conns[i].osm_node,
                            length |-> conns[i].length,
                            use |-> "TransitConnection",
                            lineid |-> 0,
                            localedgeidx |-> i - 1,
                            exitsign |-> FALSE,
                            access_restriction |-> FALSE,
                            wayid |-> 0,
                            shape |-> conns[i].shape]]
           lineedges == [i \in 1..Len(lines) |->
                           [endnode |-> GetGraphId(lines[i].dest_pbf_graphid,
                                                   tile_node_counts),
                            length |-> Distance(stop.ll, endll(lines[i])),
                            use |-> GetTransitUse(
                                transit.routes[lines[i].routeid + 1].vehicle_type),
                            lineid |-> lines[i].lineid,
                            localedgeidx |-> Len(conns) + i - 1,
                            exitsign |-> FALSE,
                            access_restriction |-> FALSE,
                            wayid |-> lines[i].routeid,
                            shape |-> GetShape(stop.ll, endll(lines[i]),
                                               lines[i].shapeid)]]
           node == [ll |-> stop.ll, type |-> "MultiUseTransitStop",
                    stop_index |-> stop_index,
                    edge_index |-> edge_index,
                    edge_count |-> Len(conns) + Len(lines)]
       IN  /\ tilebuilder' = [tilebuilder EXCEPT
                                !.directededges = @ \o connedges \o lineedges,
                                !.nodes = Append(@, node)]
           /\ ag' = [ag EXCEPT !.nadded = @ + Len(conns), !.stop = @ + 1]
    /\ UNCHANGED <<pc, tile_node_counts, transit, storedtile, connection_edges,
                   stop_edge_map, currentnodes, currentedges>>
    /\ UNCHANGED <<spVars, bdVars>>

\* Lines 685-700: every stop is in; AddToGraph returns.
StopsDone ==
    /\ pc = "stops"
    /\ ag.stop > Len(stop_edge_map)
    /\ pc' = "done"
    /\ UNCHANGED <<tile_node_counts, transit, storedtile, tilebuilder,
                   connection_edges, stop_edge_map, currentnodes, currentedges, ag>>
    /\ UNCHANGED <<spVars, bdVars>>

-----------------------------------------------------------------------------
(* The inputs of one rewrite *)

\* The stored road tile with nn nodes, counts[k] edges at node k - 1, and the
\* given sign and restriction records: node ranges are consecutive, and an edge
\* carries the flag of each record that uses it. Its transit tables are empty.
\* Where edge j of road node k leads in a tile of nn nodes: the second edge
\* of a node leaves the tile, the others lead to a node of the tile.
EndNode(k, j, nn) ==
    IF j = 1 THEN GraphId(other_tile, k) ELSE GraphId(tile_id, (k + j + 1) % nn)

StoredTile(nn, counts, signs, restrictions) ==
    LET first(k) == SumTo(counts, k - 1)
        owner(i) == CHOOSE k \in 1..nn : first(k) <= i /\ i < first(k) + counts[k]
    IN  [nodes |-> [k \in 1..nn |-> RoadNode(k - 1, first(k), counts[k])],
         directededges |-> [e \in 1..SumTo(counts, nn) |->
              RoadEdge(owner(e - 1) - 1, e - 1 - first(owner(e - 1)),
                       (e - 1) \in Range(signs), (e - 1) \in Range(restrictions),
                       EndNode(owner(e - 1) - 1, e - 1 - first(owner(e - 1)), nn))],
         signs |-> signs,
         restrictions |-> restrictions,
         transitstops |-> <<>>,
         transitdepartures |-> <<>>,
         transitroutes |-> <<>>]

\* std::sort with OSMConnectionEdge::operator<: every order of the entries that
\* is sorted by road node (the sort is not stable).
Sorted(entries) ==
    {s \in [1..Cardinality(entries) -> entries] :
        /\ \A i \in DOMAIN s : \A j \in DOMAIN s : i # j => s[i] # s[j]
        /\ \A i \in DOMAIN s : \A j \in DOMAIN s :
               i < j => ~GraphIdLess(s[j].osm_node, s[i].osm_node)}

\* Where a stop can be: on a way that has no edge in the tile, or on the way
\* of the road edges, nearest to one of the E edges of the tile.
StopPlaces(E) ==
    {<<NoWay, 0>>} \cup {<<RoadWay, e>> : e \in 0..Max0(E - 1)}

\* Lines 714-742: the scan of the edges of the tile for the edge of the
\* stop's way that is closest to the stop; the first of the closest wins.
ClosestEdge(stop, matching) ==
    CHOOSE e \in matching : \A x \in matching :
        \/ Distance(stop.near, e - 1) < Distance(stop.near, x - 1)
        \/ Distance(stop.near, e - 1) = Distance(stop.near, x - 1) /\ e <= x

AddOSMConnection_AnyWay(stop, tile) ==
    LET edges == tile.directededges
        matching == DOMAIN edges
        token == 2 * (stop.graphid.id + 1)
    IN  IF matching = {}
        THEN <<>>
        ELSE LET e == ClosestEdge(stop, matching)
                 i == CHOOSE k \in DOMAIN tile.nodes :
                          /\ tile.nodes[k].edge_index < e
                          /\ e <= tile.nodes[k].edge_index + tile.nodes[k].edge_count
                 startnode == GraphId(tile_id, i - 1)
                 endnode == edges[e].endnode
             IN  (IF Tile_Base(stop.graphid) = Tile_Base(startnode)
                  THEN <<[osm_node |-> startnode, stop_node |-> stop.graphid,
                          length |-> token + 1, shape |-> <<token + 1>>]>>
                  ELSE <<>>)
                 \o
                 (IF Tile_Base(stop.graphid) = Tile_Base(endnode)
                     /\ startnode.tileid = endnode.tileid
                  THEN <<[osm_node |-> endnode, stop_node |-> stop.graphid,
                          length |-> token + 2, shape |-> <<token + 2>>]>>
                  ELSE <<>>)

\* Lines 703-809: the connections of one stop. No edge of the stop's way in
\* the tile: none (lines 745-752). Else one to the start node of the closest
\* edge and, when the edge ends in the tile, one to its end node.
AddOSMConnection(stop, tile) ==
    LET edges == tile.directededges
        matching == {e \in DOMAIN edges : edges[e].wayid = stop.osm_way_id}
        token == 2 * (stop.graphid.id + 1)
    IN  IF matching = {}
        THEN <<>>
        ELSE LET e == ClosestEdge(stop, matching)
                 i == CHOOSE k \in DOMAIN tile.nodes :
                          /\ tile.nodes[k].edge_index < e
                          /\ e <= tile.nodes[k].edge_index + tile.nodes[k].edge_count
                 startnode == GraphId(tile_id, i - 1)
                 endnode == edges[e].endnode
             IN  (IF Tile_Base(stop.graphid) = Tile_Base(startnode)
                  THEN <<[osm_node |-> startnode, stop_node |-> stop.graphid,
                          length |-> token + 1, shape |-> <<token + 1>>]>>
                  ELSE <<>>)
                 \o
                 (IF Tile_Base(stop.graphid) = Tile_Base(endnode)
                     /\ startnode.tileid = endnode.tileid
                  THEN <<[osm_node |-> endnode, stop_node |-> stop.graphid,
                          length |-> token + 2, shape |-> <<token + 2>>]>>
                  ELSE <<>>)

\* the connections of the first n stops, in the order of the stops
RECURSIVE Connections(_, _, _)
Connections(stops, tile, n) ==
    IF n = 0
    THEN <<>>
    ELSE Connections(stops, tile, n - 1) \o AddOSMConnection(stops[n], tile)

\* Lines 872-892 of build: the connections and the TransitStop record of every
\* stop, then the sort of the connections.
Connect ==
    /\ pc = "connect"
    /\ connection_edges' \in
           Sorted(Range(Connections(transit.stops, storedtile, Len(transit.stops))))
    /\ tilebuilder' = [tilebuilder EXCEPT
           !.transitstops = @ \o [i \in DOMAIN transit.stops |->
                                     [stop |-> transit.stops[i].graphid]]]
    /\ pc' = "build"
    /\ UNCHANGED <<tile_node_counts, transit, storedtile, stop_edge_map,
                   currentnodes, currentedges, ag>>
    /\ UNCHANGED <<spVars, bdVars>>

\* The departures ProcessStopPairs can return for a tile with ns stops: the
\* origin is a stop of the tile, the destination a stop of it or of another tile.
Departures(ns) ==
    [orig_pbf_graphid : {GraphId(tile_id, i) : i \in 0..(ns - 1)},
     dest_pbf_graphid : {GraphId(tile_id, i) : i \in 0..(ns - 1)}
                        \cup {GraphId(other_tile, 0)},
     route : {0, 1}]

\* The multimap of departures keeps no order between two origins: its content
\* is listed origin by origin, the departures of one origin in any order.
ByOrigin(lists) ==
    {l \in lists : \A i \in DOMAIN l : \A j \in DOMAIN l :
        i < j => ~GraphIdLess(l[j].orig_pbf_graphid, l[i].orig_pbf_graphid)}

\* The routes of the transit record: a tram route and a bus route.
Routes == <<[vehicle_type |-> 0], [vehicle_type |-> 3]>>

\* The routes of a transit record: none, which leaves no route for a
\* departure to use, or the two of Routes.
TransitRoutes(ndepartures) ==
    IF ndepartures = 0 THEN {<<>>, Routes} ELSE {Routes}

\* build after ProcessStopPairs has returned deps (line 912): every stop pair
\* was kept, and each left its bikes_allowed flag on both its stops.
PairsReturned(deps) ==
    /\ sp_pc = "done"
    /\ tile_date = 0
    /\ stop_pairs_size = Len(deps)
    /\ sp_i = Len(deps)
    /\ sp = <<>>
    /\ departures = deps
    /\ stop_access = [g \in {deps[i].orig_pbf_graphid : i \in DOMAIN deps}
                             \cup {deps[i].dest_pbf_graphid : i \in DOMAIN deps} |->
                         TRUE]

InitRewrite ==
    \E nn \in 1..MaxNodes :
    \E counts \in [1..nn -> 0..MaxEdgeCount] :
    \E ns \in 0..MaxStops :
    \E places \in [1..ns -> StopPlaces(SumTo(counts, nn))] :
    LET E == SumTo(counts, nn)
        stops == [i \in 1..ns |->
                    Stop(GraphId(tile_id, i - 1), places[i][1], places[i][2])]
        entries == Connections(stops, StoredTile(nn, counts, <<>>, <<>>), ns)
        rest == MaxSize - E - ns
    IN
    /\ rest >= 0
    /\ Len(entries) <= MaxConnections
    /\ \E nsigns \in 0..Min(MaxRefs, rest) :
       \E nrestrictions \in 0..Min(MaxRefs - nsigns, rest - nsigns) :
       \E ndepartures \in 0..Min(MaxDepartures, rest - nsigns - nrestrictions) :
       \E signs \in AscSeqs(0..(E - 1), nsigns) :
       \E restrictions \in AscSeqs(0..(E - 1), nrestrictions) :
       \E deps \in ByOrigin([1..ndepartures -> Departures(ns)]) :
       \E routes \in TransitRoutes(ndepartures) :
          /\ storedtile = StoredTile(nn, counts, signs, restrictions)
          /\ tilebuilder = storedtile
          /\ transit = [stops |-> stops, routes |-> routes]
          /\ stop_edge_map = <<>>
          /\ connection_edges = <<>>
          /\ PairsReturned(deps)
    /\ tile_node_counts \in {(tile_id :> nn),
                             (tile_id :> nn) @@ (other_tile :> MaxNodes)}
    /\ currentnodes = <<>>
    /\ currentedges = <<>>
    /\ ag = [nodeid |-> 0, added_edges |-> 0, signidx |-> 0, nextsignidx |-> 0,
             residx |-> 0, nextresidx |-> 0, nadded |-> 0, edge_index |-> 0,
             stop |-> 0]
    /\ pc = "connect"
    /\ IdleBuild

\* AddToGraph taken as a function of its arguments: any vector of connections,
\* sorted or not, whose road node may be none of the tile (index nn) and whose
\* stop may be a stop of a tile that tile_node_counts does not hold.
InitAnyInput ==
    \E nn \in 1..MaxNodes :
    \E counts \in [1..nn -> 0..MaxEdgeCount] :
    \E ns \in 0..MaxStops :
    LET E == SumTo(counts, nn)
        rest == MaxSize - E - ns
        entries == [osm_node : {GraphId(tile_id, k) : k \in 0..nn},
                    stop_node : {GraphId(tile_id, i) : i \in 0..(ns - 1)}
                                \cup {GraphId(other_tile, 0)}]
    IN
    /\ rest >= 0
    /\ \E nconnections \in 0..Min(MaxConnections, rest) :
       \E ndepartures \in 0..Min(MaxDepartures - 1, rest - nconnections) :
       \E cs \in [1..nconnections -> entries] :
       \E deps \in [1..ndepartures -> Departures(ns)] :
          /\ storedtile = StoredTile(nn, counts, <<>>, <<>>)
          /\ tilebuilder = storedtile
          /\ transit = [stops |-> [i \in 1..ns |-> Stop(GraphId(tile_id, i - 1), RoadWay, 0)],
                        routes |-> Routes]
          /\ stop_edge_map = <<>>
          /\ PairsReturned(deps)
          /\ connection_edges = [j \in 1..nconnections |->
                 [osm_node |-> cs[j].osm_node, stop_node |-> cs[j].stop_node,
                  length |-> j, shape |-> <<j>>]]
    /\ tile_node_counts \in {(tile_id :> nn),
                             (tile_id :> nn) @@ (other_tile :> MaxNodes)}
    /\ currentnodes = <<>>
    /\ currentedges = <<>>
    /\ ag = [nodeid |-> 0, added_edges |-> 0, signidx |-> 0, nextsignidx |-> 0,
             residx |-> 0, nextresidx |-> 0, nadded |-> 0, edge_index |-> 0,
             stop |-> 0]
    /\ pc = "build"
    /\ IdleBuild

NextRewrite ==
    \/ BuildStops
    \/ Snapshot
    \/ RoadNodeEdges
    \/ ConnectionEdge
    \/ RoadNodeDone
    \/ RoadNodesDone
    \/ TransitNode
    \/ StopsDone

\* build on one tile: the stop loops, then AddToGraph
NextTile ==
    \/ Connect
    \/ NextRewrite

SpecRewrite == InitRewrite /\ [][NextTile]_vars

SpecAnyInput == InitAnyInput /\ [][NextRewrite]_vars

-----------------------------------------------------------------------------
(* Properties of the rewritten tile *)

\* the indexes (1-based) of the rebuilt edge array a rebuilt node owns
EdgeRange(node) == (node.edge_index + 1)..(node.edge_index + node.edge_count)

RoadNodeCount == Len(storedtile.nodes)

\* the number of connection edges put in at the road nodes before node k (0-based)
ConnectionsBefore(k) ==
    Cardinality({e \in 1..tilebuilder.nodes[k + 1].edge_index :
                    tilebuilder.directededges[e].use = "TransitConnection"})

\* the road node (0-based) that owns edge i (0-based) of the stored tile
Origin(i) ==
    CHOOSE k \in 0..(RoadNodeCount - 1) :
        (i + 1) \in EdgeRange(storedtile.nodes[k + 1])

\* C1: after AddToGraph the edge ranges of the rebuilt nodes, road nodes first
\* and transit nodes after them, follow one another from 0 without gap or
\* overlap and end at the size of the rebuilt edge array, so the edge counts
\* add up to directed_edges.size().
C1_EdgeRangesPartition ==
    pc = "done" =>
        LET nodes == tilebuilder.nodes
            n == Len(nodes)
        IN  /\ n = RoadNodeCount + Len(stop_edge_map)
            /\ \A k \in 1..n :
                   /\ nodes[k].edge_index =
                          IF k = 1 THEN 0
                          ELSE nodes[k - 1].edge_index + nodes[k - 1].edge_count
                   /\ (nodes[k].type = "MultiUseTransitStop") <=> (k > RoadNodeCount)
            /\ (IF n = 0 THEN 0 ELSE nodes[n].edge_index + nodes[n].edge_count)
                   = Len(tilebuilder.directededges)
            /\ SumTo([k \in 1..n |-> nodes[k].edge_count], n)
                   = Len(tilebuilder.directededges)

C1_Witness ==
    /\ pc = "done"
    /\ RoadNodeCount >= 2
    /\ \E k \in 1..RoadNodeCount :
           /\ storedtile.nodes[k].edge_count > 0
           /\ tilebuilder.nodes[k].edge_count > storedtile.nodes[k].edge_count
    /\ \E k \in (RoadNodeCount + 1)..Len(tilebuilder.nodes) :
           \E e \in EdgeRange(tilebuilder.nodes[k]) :
               tilebuilder.directededges[e].lineid > 0

\* a record that used edge i of the stored tile uses, after the rewrite, index
\* i plus the connection edges put in before i's origin node, where the same
\* edge now is
Shifted(old, new, flag) ==
    /\ Len(new) = Len(old)
    /\ \A s \in DOMAIN old :
           LET i == old[s]
               j == i + ConnectionsBefore(Origin(i))
           IN  /\ new[s] = j
               /\ j < Len(tilebuilder.directededges)
               /\ tilebuilder.directededges[j + 1] = storedtile.directededges[i + 1]
               /\ tilebuilder.directededges[j + 1][flag]

\* C2: after AddToGraph every sign record and every access-restriction record
\* that used edge index i uses i + (connection edges inserted at the road
\* nodes before the origin of i): the same edge, which carries the flag.
C2_RecordsReindexed ==
    pc = "done" =>
        /\ Shifted(storedtile.signs, tilebuilder.signs, "exitsign")
        /\ Shifted(storedtile.restrictions, tilebuilder.restrictions,
                   "access_restriction")

C2_Witness ==
    /\ pc = "done"
    /\ \E s \in DOMAIN storedtile.signs :
           tilebuilder.signs[s] > storedtile.signs[s]
    /\ \E s \in DOMAIN storedtile.restrictions :
           tilebuilder.restrictions[s] > storedtile.restrictions[s]

\* C3: after AddToGraph every entry of connection_edges has exactly two edges
\* in the rebuilt tile, both with the entry's shape and length: one in the
\* range of its road node, ending at the final id of its stop, and one in the
\* range of the stop's transit node, ending at the road node. Both counters of
\* added connections equal connection_edges.size().
C3_ConnectionsBothWays ==
    pc = "done" =>
        /\ ag.added_edges = Len(connection_edges)
        /\ ag.nadded = Len(connection_edges)
        /\ \A j \in DOMAIN connection_edges :
               LET c == connection_edges[j]
                   final == GetGraphId(c.stop_node, tile_node_counts)
                   edges == tilebuilder.directededges
                   built == {e \in DOMAIN edges :
                                /\ edges[e].use = "TransitConnection"
                                /\ edges[e].shape = c.shape}
                   out == built \cap EdgeRange(tilebuilder.nodes[c.osm_node.id + 1])
                   back == built \cap EdgeRange(tilebuilder.nodes[final.id + 1])
               IN  /\ Cardinality(built) = 2
                   /\ Cardinality(out) = 1
                   /\ Cardinality(back) = 1
                   /\ \A e \in out : edges[e].endnode = final
                   /\ \A e \in back : edges[e].endnode = c.osm_node
                   /\ \A e \in built : edges[e].length = c.length

C3_Witness ==
    /\ pc = "done"
    /\ \E i \in DOMAIN connection_edges : \E j \in DOMAIN connection_edges :
           /\ i # j
           /\ connection_edges[i].stop_node = connection_edges[j].stop_node
           /\ connection_edges[i].osm_node # connection_edges[j].osm_node
    /\ \E i \in DOMAIN connection_edges : \E j \in DOMAIN connection_edges :
           connection_edges[i].stop_node # connection_edges[j].stop_node

-----------------------------------------------------------------------------
(* Properties of the lines and of the rewrite *)

\* the (route, destination) pairs of the departures that leave stop g
PairsOf(g) ==
    {<<departures[i].route, departures[i].dest_pbf_graphid>> :
        i \in {j \in DOMAIN departures : departures[j].orig_pbf_graphid = g}}

\* C12: once build has formed the lines, every stop of the tile has its
\* StopEdges, and the lines of a stop are as many as the distinct (route,
\* destination) pairs among the departures that leave it, one line per pair.
C12_OneLinePerPair ==
    pc \notin {"idle", "connect", "build"} =>
        /\ Len(stop_edge_map) = Len(transit.stops)
        /\ \A s \in DOMAIN stop_edge_map :
               LET lines == stop_edge_map[s].lines
                   pairs == PairsOf(stop_edge_map[s].origin_pbf_graphid)
               IN  /\ Len(lines) = Cardinality(pairs)
                   /\ {<<lines[i].routeid, lines[i].dest_pbf_graphid>> :
                          i \in DOMAIN lines} = pairs

C12_Witness ==
    /\ pc = "AddToGraph"
    /\ \E s \in DOMAIN stop_edge_map :
       \E i \in DOMAIN departures : \E j \in DOMAIN departures :
           /\ i # j
           /\ departures[i] = departures[j]
           /\ departures[i].orig_pbf_graphid = stop_edge_map[s].origin_pbf_graphid
           /\ Len(stop_edge_map[s].lines) = 1

\* the lines of the stops in the order of stop_edge_map
RECURSIVE AllLines(_)
AllLines(n) ==
    IF n = 0 THEN <<>> ELSE AllLines(n - 1) \o stop_edge_map[n].lines

\* C13: the line ids of the tile, taken stop after stop and line after line,
\* are 1, 2, ..., L: pairwise distinct, increasing from 1, without gap; the
\* same (route, destination) pair at two stops has two line ids.
C13_LineIdsDistinct ==
    pc \notin {"idle", "connect", "build"} =>
        LET all == AllLines(Len(stop_edge_map))
        IN  \A i \in DOMAIN all : all[i].lineid = i

C13_Witness ==
    /\ pc = "AddToGraph"
    /\ \E s \in DOMAIN stop_edge_map : \E t \in DOMAIN stop_edge_map :
       \E k \in Range(stop_edge_map[s].lines) : \E l \in Range(stop_edge_map[t].lines) :
           /\ s # t
           /\ k.routeid = l.routeid
           /\ k.dest_pbf_graphid = l.dest_pbf_graphid
           /\ k.lineid # l.lineid

IsTransitEdge(e) == e.use \in {"Rail", "Bus"}

\* C14: every transit directed edge of the tile being rebuilt lies in the
\* range of a transit node and carries a line id of 1 or more which is the id
\* of a line of that node's stop.
C14_NoLineIdZero ==
    pc \notin {"idle", "connect", "build"} =>
        \A e \in DOMAIN tilebuilder.directededges :
            LET edge == tilebuilder.directededges[e]
            IN  IsTransitEdge(edge) =>
                    /\ edge.lineid >= 1
                    /\ \E k \in (RoadNodeCount + 1)..Len(tilebuilder.nodes) :
                           /\ e \in EdgeRange(tilebuilder.nodes[k])
                           /\ \E s \in DOMAIN stop_edge_map :
                              \E l \in Range(stop_edge_map[s].lines) :
                                  /\ stop_edge_map[s].origin_pbf_graphid.id =
                                         tilebuilder.nodes[k].stop_index
                                  /\ l.lineid = edge.lineid
                                  /\ l.routeid = edge.wayid

C14_Witness ==
    /\ pc = "done"
    /\ \E e \in DOMAIN tilebuilder.directededges :
       \E f \in DOMAIN tilebuilder.directededges :
           /\ IsTransitEdge(tilebuilder.directededges[e])
           /\ IsTransitEdge(tilebuilder.directededges[f])
           /\ tilebuilder.directededges[e].lineid = 1
           /\ tilebuilder.directededges[f].lineid = 2

\* C16: a tile whose transit record has no stop is, after the build, what it
\* was before it: nodes, directed edges, sign and restriction indexes and
\* transit tables.
C16_NoStopsNoRewrite ==
    (pc = "done" /\ Len(transit.stops) = 0) => tilebuilder = storedtile

C20_RoadGraphKept ==
    pc = "done" =>
        LET nodes == tilebuilder.nodes
            edges == tilebuilder.directededges
        IN  /\ Len(nodes) >= RoadNodeCount
            /\ \A k \in 1..RoadNodeCount :
                   LET old == storedtile.nodes[k]
                   IN  /\ nodes[k] = [old EXCEPT !.edge_index = nodes[k].edge_index,
                                                 !.edge_count = nodes[k].edge_count]
                       /\ nodes[k].edge_count >= old.edge_count
                       /\ \A j \in 1..nodes[k].edge_count :
                              IF j <= old.edge_count
                              THEN edges[nodes[k].edge_index + j] =
                                       storedtile.directededges[old.edge_index + j]
                              ELSE edges[nodes[k].edge_index + j].use = "TransitConnection"
            /\ SelectSeq(edges, LAMBDA e : e.use = "Road") = storedtile.directededges
            /\ \A k \in (RoadNodeCount + 1)..Len(nodes) :
                   /\ nodes[k].type = "MultiUseTransitStop"
                   /\ k > RoadNodeCount + 1 => nodes[k - 1].stop_index < nodes[k].stop_index

C20_Witness ==
    /\ pc = "done"
    /\ RoadNodeCount >= 2
    /\ storedtile.nodes[1].edge_count >= 1
    /\ tilebuilder.nodes[1].edge_count > storedtile.nodes[1].edge_count
    /\ storedtile.nodes[2].edge_count >= 1
    /\ tilebuilder.nodes[2].edge_index > storedtile.nodes[2].edge_index
    /\ Len(tilebuilder.nodes) >= RoadNodeCount + 2

\* AddToGraph from any connection list, every step taken that can be taken.
SpecAnyInputFair == InitAnyInput /\ [][NextRewrite]_vars /\ WF_vars(NextRewrite)

\* C18: the road-node pass ends for every input, a connection whose stop
\* is in a tile unknown to tile_node_counts being skipped, and so AddToGraph
\* returns.
C18_PassTerminates == <>(pc = "done")

\* the transit edges of the rebuilt tile that carry line id n
EdgesOfLine(n) ==
    {e \in DOMAIN tilebuilder.directededges :
        /\ IsTransitEdge(tilebuilder.directededges[e])
        /\ tilebuilder.directededges[e].lineid = n}

KnownTile(g) == g.tileid \in DOMAIN tile_node_counts

\* C21: after the rewrite every line of a stop whose destination tile is in
\* tile_node_counts has exactly one transit edge with its line id; the edge
\* leaves the transit node of the stop and ends at the final id of the
\* destination. A line whose destination tile is not in tile_node_counts has
\* no edge, and it is the only kind without one; so every TransitDeparture
\* record has one edge of its line id, or none when its line is of that kind.
C21_OneEdgePerLine ==
    pc = "done" =>
        /\ \A s \in DOMAIN stop_edge_map : \A l \in Range(stop_edge_map[s].lines) :
               LET g == stop_edge_map[s].origin_pbf_graphid
                   dest == l.dest_pbf_graphid
                   node == tilebuilder.nodes[RoadNodeCount + g.id + 1]
                   hits == EdgesOfLine(l.lineid)
               IN  IF KnownTile(dest)
                   THEN /\ Cardinality(hits) = 1
                        /\ \A e \in hits :
                               /\ e \in EdgeRange(node)
                               /\ node.stop_index = g.id
                               /\ tilebuilder.directededges[e].endnode =
                                      GraphId(dest.tileid,
                                              dest.id + tile_node_counts[dest.tileid])
                               /\ dest.tileid = tile_id =>
                                      tilebuilder.nodes[
                                          tilebuilder.directededges[e].endnode.id + 1
                                      ].stop_index = dest.id
                   ELSE hits = {}
        /\ \A t \in DOMAIN tilebuilder.transitdepartures :
               LET td == tilebuilder.transitdepartures[t]
                   line == {l \in Range(stop_edge_map[td.origin.id + 1].lines) :
                               l.lineid = td.lineid}
               IN  /\ Cardinality(line) = 1
                   /\ \A l \in line :
                          Cardinality(EdgesOfLine(td.lineid)) =
                              IF KnownTile(l.dest_pbf_graphid) THEN 1 ELSE 0

C21_Witness ==
    /\ pc = "done"
    /\ \E s \in DOMAIN stop_edge_map :
           LET lines == stop_edge_map[s].lines
           IN  /\ Len(lines) = 2
               /\ ~KnownTile(lines[1].dest_pbf_graphid)
               /\ KnownTile(lines[2].dest_pbf_graphid)
               /\ EdgesOfLine(lines[1].lineid) = {}
               /\ Cardinality(EdgesOfLine(lines[2].lineid)) = 1

\* the TransitDeparture records of stop g, and those of them with line id n
RecordsOf(g) ==
    {t \in DOMAIN tilebuilder.transitdepartures :
        tilebuilder.transitdepartures[t].origin = g}

RecordsOfLine(g, l) ==
    {t \in RecordsOf(g) : /\ tilebuilder.transitdepartures[t].lineid = l.lineid
                          /\ tilebuilder.transitdepartures[t].route = l.routeid}

\* the departures that leave stop g, and those of them that line l stands for
DeparturesOf(g) ==
    {d \in DOMAIN departures : departures[d].orig_pbf_graphid = g}

DeparturesOfLine(g, l) ==
    {d \in DeparturesOf(g) : /\ departures[d].route = l.routeid
                             /\ departures[d].dest_pbf_graphid = l.dest_pbf_graphid}

\* C22: the tile that build stores holds, for every stop, as many TransitDeparture records as the
\* stop has departures, one per departure and not one per line; each carries
\* the route of its departure and the line id of the line of the stop that
\* has the departure's route and destination, so that the departures of one
\* (route, destination) pair share one line id.
C22_OneRecordPerDeparture ==
    pc = "done" =>
        LET tds == tilebuilder.transitdepartures
        IN  /\ \A i \in DOMAIN transit.stops :
                   LET g == transit.stops[i].graphid
                   IN  Cardinality(RecordsOf(g)) = Cardinality(DeparturesOf(g))
            /\ \A s \in DOMAIN stop_edge_map : \A l \in Range(stop_edge_map[s].lines) :
                   LET g == stop_edge_map[s].origin_pbf_graphid
                   IN  Cardinality(RecordsOfLine(g, l)) =
                           Cardinality(DeparturesOfLine(g, l))
            /\ \A t \in DOMAIN tds :
                   \E s \in DOMAIN stop_edge_map :
                   \E l \in Range(stop_edge_map[s].lines) :
                       /\ stop_edge_map[s].origin_pbf_graphid = tds[t].origin
                       /\ l.lineid = tds[t].lineid
                       /\ l.routeid = tds[t].route

C22_Witness ==
    /\ pc = "done"
    /\ Len(departures) = 2
    /\ departures[1] = departures[2]
    /\ Len(tilebuilder.transitdepartures) = 2
    /\ tilebuilder.transitdepartures[1].lineid = tilebuilder.transitdepartures[2].lineid
    /\ Len(stop_edge_map[departures[1].orig_pbf_graphid.id + 1].lines) = 1

\* a stop whose way has no directed edge in the road tile
Orphan(stop) ==
    \A e \in DOMAIN storedtile.directededges :
        storedtile.directededges[e].wayid # stop.osm_way_id

-----------------------------------------------------------------------------
(* CalendarBitmap: DateTime::get_service_days, remove_service_day,         *)
(* add_service_day.  Dates are day numbers; day 0 is a Monday.  The value  *)
(* of Departure::days is the set of the dates whose bit is set, so that    *)
(* days == 0 in the code is days = {} here.                                *)

\* the width of Departure::days
DaysBits == 64

\* the dates of the feeds: the first days, and the first day that is past the
\* bitmap of a tile whose date is day 0
Dates == (0..MaxDate) \cup {DaysBits}

day_of_week(d) == d % 7

DowMask_SundayFirst(service_days_of_week) ==
    {(x + 6) % 7 : x \in {y \in 0..6 : y + 1 <= Len(service_days_of_week)
                                        /\ service_days_of_week[y + 1]}}

\* the loop that ORs kMonday..kSunday into dow_mask: entry x of the flag
\* vector stands for weekday x, entries past the seventh are ignored
DowMask(service_days_of_week) ==
    {x \in 0..6 : x + 1 <= Len(service_days_of_week) /\ service_days_of_week[x + 1]}

get_service_days(start_date, end_date, ref, dow_mask) ==
    {d \in Dates : /\ start_date <= d
                   /\ d <= end_date
                   /\ ref <= d
                   /\ d < ref + DaysBits
                   /\ day_of_week(d) \in dow_mask}

remove_service_day(days, start_date, end_date, d) ==
    IF start_date <= d /\ d <= end_date THEN days \ {d} ELSE days

add_service_day(days, start_date, end_date, d) ==
    IF start_date <= d /\ d <= end_date THEN days \cup {d} ELSE days

\* the loop over service_except_dates
RECURSIVE RemoveDates(_, _, _, _, _)
RemoveDates(days, start_date, end_date, dates, x) ==
    IF x > Len(dates)
    THEN days
    ELSE RemoveDates(remove_service_day(days, start_date, end_date, dates[x]),
                     start_date, end_date, dates, x + 1)

\* the loop over service_added_dates
RECURSIVE AddDates(_, _, _, _, _)
AddDates(days, start_date, end_date, dates, x) ==
    IF x > Len(dates)
    THEN days
    ELSE AddDates(add_service_day(days, start_date, end_date, dates[x]),
                  start_date, end_date, dates, x + 1)

-----------------------------------------------------------------------------
(* ProcessStopPairs *)

EveryDay == [x \in 1..7 |-> TRUE]

NoDay == [x \in 1..7 |-> FALSE]

MondayOnly == [x \in 1..7 |-> x = 1]

DateLists == {<<>>} \cup {<<d>> : d \in Dates}

\* The stop pairs a transit record can hold.
StopPairs ==
    [origin_graphid : {GraphId(tile_id, 0)},
     destination_graphid : {GraphId(tile_id, 1)},
     route_index : {0},
     service_days_of_week : {EveryDay, NoDay, MondayOnly},
     service_start_date : Dates,
     service_end_date : Dates,
     service_except_dates : DateLists,
     service_added_dates : DateLists,
     bikes_allowed : BOOLEAN]

\* transit.stop_pairs_size() == 0: the empty result, whatever the stops are.
NoStopPairs ==
    /\ sp_pc = "ProcessStopPairs"
    /\ stop_pairs_size = 0
    /\ sp_pc' = "done"
    /\ UNCHANGED <<tile_date, stop_pairs_size, sp_i, sp, departures, stop_access>>
    /\ UNCHANGED <<rwVars, bdVars>>

StartPairs ==
    /\ sp_pc = "ProcessStopPairs"
    /\ stop_pairs_size > 0
    /\ sp_pc' = "loop"
    /\ sp_i' = 0
    /\ UNCHANGED <<tile_date, stop_pairs_size, sp, departures, stop_access>>
    /\ UNCHANGED <<rwVars, bdVars>>

\* What one pass of the loop leaves in dep.days when the pair is kept.
FinalDays(pair, days) ==
    LET removed == RemoveDates(days, pair.service_start_date,
                               pair.service_end_date, pair.service_except_dates, 1)
    IN  AddDates(removed, pair.service_start_date,
                 pair.service_end_date, pair.service_added_dates, 1)

\* One pass of the loop over the stop pairs: the pair read is kept in sp.
StopPair ==
    /\ sp_pc = "loop"
    /\ sp_i < stop_pairs_size
    /\ \E pair \in StopPairs :
         LET dow_mask == DowMask(pair.service_days_of_week)
             days == get_service_days(pair.service_start_date,
                                      pair.service_end_date, tile_date, dow_mask)
         IN  /\ sp' = pair
             /\ IF days = {}
                THEN UNCHANGED <<departures, stop_access>>
                ELSE /\ stop_access' =
                          [g \in DOMAIN stop_access
                                 \cup {pair.origin_graphid, pair.destination_graphid} |->
                             IF g \in {pair.origin_graphid, pair.destination_graphid}
                             THEN pair.bikes_allowed
                             ELSE stop_access[g]]
                     /\ departures' = Append(departures,
                          [days |-> FinalDays(pair, days),
                           orig_pbf_graphid |-> pair.origin_graphid,
                           dest_pbf_graphid |-> pair.destination_graphid,
                           route |-> pair.route_index,
                           end_day |-> pair.service_end_date - pair.service_start_date,
                           dow |-> dow_mask])
    /\ sp_i' = sp_i + 1
    /\ UNCHANGED <<sp_pc, tile_date, stop_pairs_size>>
    /\ UNCHANGED <<rwVars, bdVars>>

PairsDone ==
    /\ sp_pc = "loop"
    /\ sp_i >= stop_pairs_size
    /\ sp_pc' = "done"
    /\ UNCHANGED <<tile_date, stop_pairs_size, sp_i, sp, departures, stop_access>>
    /\ UNCHANGED <<rwVars, bdVars>>

InitPairs ==
    /\ sp_pc = "ProcessStopPairs"
    /\ tile_date \in Dates
    /\ stop_pairs_size \in 0..MaxPairs
    /\ sp_i = 0
    /\ sp = <<>>
    /\ departures = <<>>
    /\ stop_access = <<>>
    /\ IdleRewrite
    /\ IdleBuild

NextPairs ==
    \/ NoStopPairs
    \/ StartPairs
    \/ StopPair
    \/ PairsDone

SpecPairs == InitPairs /\ [][NextPairs]_vars

\* ProcessStopPairs on a transit record of one stop pair at most.
InitOnePair ==
    /\ InitPairs
    /\ stop_pairs_size <= 1

SpecOnePair == InitOnePair /\ [][NextPairs]_vars

\* C5: every Departure that ProcessStopPairs returns has a service-days
\* bitmap other than zero; a stop pair whose bitmap is zero is dropped.
C5_DaysNotZero ==
    sp_pc = "done" => \A i \in DOMAIN departures : departures[i].days # {}

\* the dates that the calendar law gives a stop pair in a tile of date ref
CalendarLaw(pair, ref) ==
    {x \in Dates : \E d \in 0..(DaysBits - 1) :
        /\ x = ref + d
        /\ pair.service_start_date <= x
        /\ x <= pair.service_end_date
        /\ pair.service_days_of_week[day_of_week(x) + 1]}

-----------------------------------------------------------------------------
(* TransitBuilder::Build and the worker function build.                    *)
(* A tile is its position 1..tiles in the iteration order of the map; an   *)
(* iterator is the number of tiles before it.  The content of a tile is    *)
(*   "road"         the road tile as stored before the build,              *)
(*   "stops_added"  a builder after the stop, departure and route loops,   *)
(*   "transit"      a builder after AddToGraph.                            *)
(* input[t] says what the transit record of tile t does to its worker:     *)
(*   "missing"      the file is not there or cannot be opened,             *)
(*   "unparsable"   ParseFromCodedStream fails,                            *)
(*   "throws"       read_pbf throws inside AddToGraph,                     *)
(*   "ok"           none of these.                                         *)

(* Every tile holds one stop, stop 0, whose lines lead to stop 0 of every   *)
(* other tile of the build set and of one tile outside it.  tb and         *)
(* tiledata keep, of a builder and of a stored tile, the number of nodes,  *)
(* the index of the transit node of stop 0 (-1 without one) and, per       *)
(* destination tile, the end node of the transit edge that leads there.    *)

Max(a, b) == IF a >= b THEN a ELSE b

\* the road-node counts of the stored tiles: one node in every tile, or t
\* nodes in tile t
RoadNodeCounts == {[t \in 1..tiles |-> 1], [t \in 1..tiles |-> t]}

\* the tiles the lines of tile t lead to; tile tiles + 1 is not in the build set
DestTiles(t) == (1..(tiles + 1)) \ {t}

TileData(n) == [nodes |-> n, stop_node |-> -1, endnodes |-> <<>>]

\* lines 1026-1043: the map of the eligible tiles and their node counts
Enumerate ==
    /\ bd.pc = "Enumerate"
    /\ tile_node_counts' = [t \in 1..tiles |-> tiledata[t].nodes]
    /\ bd' = [bd EXCEPT !.pc = "Build"]
    /\ UNCHANGED <<pc, transit, storedtile, tilebuilder, connection_edges,
                   stop_edge_map, currentnodes, currentedges, ag>>
    /\ UNCHANGED <<tiles, concurrency, threads, input, store, lock, results,
                   wk, builder, built_by, tb, tiledata>>
    /\ UNCHANGED spVars

Workers == DOMAIN wk

\* the tile the worker is at
CurrentTile(w) == wk[w].tile_start + 1

Running == bd.pc # "terminated"

\* Build returns before any thread exists.
NoTransitTiles ==
    /\ bd.pc = "Build"
    /\ tiles = 0
    /\ bd' = [bd EXCEPT !.pc = "done"]
    /\ UNCHANGED <<tiles, concurrency, threads, input, store, lock, results,
                   wk, builder, built_by>>
    /\ UNCHANGED <<tb, tiledata>>
    /\ UNCHANGED <<rwVars, spVars>>

\* threads(std::max(1, concurrency)), floor and at_ceiling
Divvy ==
    /\ bd.pc = "Build"
    /\ tiles > 0
    /\ threads' = Max(1, concurrency)
    /\ LET floor == tiles \div threads'
       IN  bd' = [bd EXCEPT !.pc = "spawn",
                            !.floor = floor,
                            !.at_ceiling = tiles - (threads' * floor),
                            !.tile_end = 0,
                            !.i = 0]
    /\ wk' = [w \in 1..threads' |->
                [pc |-> "unborn", first |-> 0, tile_start |-> 0, tile_end |-> 0]]
    /\ builder' = [w \in 1..threads' |-> "none"]
    /\ tb' = [w \in 1..threads' |-> TileData(0)]
    /\ UNCHANGED <<tiles, concurrency, input, store, lock, results, built_by,
                   tiledata>>
    /\ UNCHANGED <<rwVars, spVars>>

TileCount_FloorOnly(i, floor, at_ceiling) == floor

TileCount(i, floor, at_ceiling) == IF i < at_ceiling THEN floor + 1 ELSE floor

\* One pass of the loop that starts the threads.
SpawnThread ==
    /\ bd.pc = "spawn"
    /\ bd.i < threads
    /\ LET tile_count == TileCount(bd.i, bd.floor, bd.at_ceiling)
           tile_start == bd.tile_end
           tile_end == bd.tile_end + tile_count
       IN  /\ bd' = [bd EXCEPT !.tile_end = tile_end, !.i = bd.i + 1]
           /\ results' = Append(results, "unset")
           /\ wk' = [wk EXCEPT ![bd.i + 1] =
                        [pc |-> "loop", first |-> tile_start,
                         tile_start |-> tile_start, tile_end |-> tile_end]]
    /\ UNCHANGED <<tiles, concurrency, threads, input, store, lock, builder, built_by>>
    /\ UNCHANGED <<tb, tiledata>>
    /\ UNCHANGED <<rwVars, spVars>>

SpawnDone ==
    /\ bd.pc = "spawn"
    /\ bd.i >= threads
    /\ bd' = [bd EXCEPT !.pc = "join", !.k = 0]
    /\ UNCHANGED <<tiles, concurrency, threads, input, store, lock, results,
                   wk, builder, built_by>>
    /\ UNCHANGED <<tb, tiledata>>
    /\ UNCHANGED <<rwVars, spVars>>

\* thread->join() returns once the thread function has returned.
Join ==
    /\ bd.pc = "join"
    /\ bd.k < threads
    /\ wk[bd.k + 1].pc = "returned"
    /\ bd' = [bd EXCEPT !.k = bd.k + 1]
    /\ UNCHANGED <<tiles, concurrency, threads, input, store, lock, results,
                   wk, builder, built_by>>
    /\ UNCHANGED <<tb, tiledata>>
    /\ UNCHANGED <<rwVars, spVars>>

JoinDone ==
    /\ bd.pc = "join"
    /\ bd.k >= threads
    /\ bd' = [bd EXCEPT !.pc = "results", !.k = 0]
    /\ UNCHANGED <<tiles, concurrency, threads, input, store, lock, results,
                   wk, builder, built_by>>
    /\ UNCHANGED <<tb, tiledata>>
    /\ UNCHANGED <<rwVars, spVars>>

\* result.get_future().get() returns once the promise holds a value or an
\* exception; the exception is caught and dropped.
GetResult ==
    /\ bd.pc = "results"
    /\ bd.k < threads
    /\ results[bd.k + 1] # "unset"
    /\ bd' = [bd EXCEPT !.k = bd.k + 1]
    /\ UNCHANGED <<tiles, concurrency, threads, input, store, lock, results,
                   wk, builder, built_by>>
    /\ UNCHANGED <<tb, tiledata>>
    /\ UNCHANGED <<rwVars, spVars>>

Finished ==
    /\ bd.pc = "results"
    /\ bd.k >= threads
    /\ bd' = [bd EXCEPT !.pc = "done"]
    /\ UNCHANGED <<tiles, concurrency, threads, input, store, lock, results,
                   wk, builder, built_by>>
    /\ UNCHANGED <<tb, tiledata>>
    /\ UNCHANGED <<rwVars, spVars>>

-----------------------------------------------------------------------------
(* build: the function each worker thread runs *)

mutex_lock_NoWait(w) == lock' = w

\* lock.lock() returns once the mutex is free, and then the caller holds it
mutex_lock(w) == lock = 0 /\ lock' = w

mutex_unlock(w) == lock' = 0

\* The file is missing, cannot be opened or cannot be parsed: build returns.
LoadFails(w) ==
    /\ Running
    /\ wk[w].pc = "loop"
    /\ wk[w].tile_start # wk[w].tile_end
    /\ input[CurrentTile(w)] \in {"missing", "unparsable"}
    /\ wk' = [wk EXCEPT ![w].pc = "returned"]
    /\ UNCHANGED <<tiles, concurrency, threads, input, store, lock, results,
                   bd, builder, built_by>>
    /\ UNCHANGED <<tb, tiledata>>
    /\ UNCHANGED <<rwVars, spVars>>

\* The transit record of the tile is read.
LoadTransit(w) ==
    /\ Running
    /\ wk[w].pc = "loop"
    /\ wk[w].tile_start # wk[w].tile_end
    /\ input[CurrentTile(w)] \notin {"missing", "unparsable"}
    /\ wk' = [wk EXCEPT ![w].pc = "lock_read"]
    /\ UNCHANGED <<tiles, concurrency, threads, input, store, lock, results,
                   bd, builder, built_by>>
    /\ UNCHANGED <<tb, tiledata>>
    /\ UNCHANGED <<rwVars, spVars>>

LockRead(w) ==
    /\ Running
    /\ wk[w].pc = "lock_read"
    /\ mutex_lock(w)
    /\ wk' = [wk EXCEPT ![w].pc = "open"]
    /\ UNCHANGED <<tiles, concurrency, threads, input, store, results,
                   bd, builder, built_by>>
    /\ UNCHANGED <<tb, tiledata>>
    /\ UNCHANGED <<rwVars, spVars>>

\* GetGraphTile and the deserializing GraphTileBuilder, then lock.unlock()
OpenBuilder(w) ==
    /\ Running
    /\ wk[w].pc = "open"
    /\ builder' = [builder EXCEPT ![w] = store[CurrentTile(w)]]
    /\ tb' = [tb EXCEPT ![w] = tiledata[CurrentTile(w)]]
    /\ built_by' = [built_by EXCEPT ![CurrentTile(w)] = @ \cup {w}]
    /\ mutex_unlock(w)
    /\ wk' = [wk EXCEPT ![w].pc = "stops"]
    /\ UNCHANGED <<tiles, concurrency, threads, input, store, results, bd, tiledata>>
    /\ UNCHANGED <<rwVars, spVars>>

\* The stops, departures and routes are added to the builder.
AddStops(w) ==
    /\ Running
    /\ wk[w].pc = "stops"
    /\ builder' = [builder EXCEPT ![w] = "stops_added"]
    /\ wk' = [wk EXCEPT ![w].pc = "AddToGraph"]
    /\ UNCHANGED <<tiles, concurrency, threads, input, store, lock, results,
                   bd, built_by>>
    /\ UNCHANGED <<tb, tiledata>>
    /\ UNCHANGED <<rwVars, spVars>>

\* line 619: the end node of the line that leads to stop 0 of tile u
TransitEndNode_Reread(u) ==
    GetGraphId(GraphId(u, 0), [t \in 1..tiles |-> tiledata[t].nodes])

TransitEndNode(u) == GetGraphId(GraphId(u, 0), tile_node_counts)

\* AddToGraph on the worker's builder: the transit node of stop 0 goes in
\* after the nodes the builder holds, with one edge per line whose end node
\* is valid.
AddToGraph(w) ==
    /\ Running
    /\ wk[w].pc = "AddToGraph"
    /\ input[CurrentTile(w)] # "throws"
    /\ builder' = [builder EXCEPT ![w] = "transit"]
    /\ tb' = [tb EXCEPT ![w] =
                 [nodes |-> tb[w].nodes + 1,
                  stop_node |-> tb[w].nodes,
                  endnodes |-> [u \in {x \in DestTiles(CurrentTile(w)) :
                                           Is_Valid(TransitEndNode(x))} |->
                                    TransitEndNode(u).id]]]
    /\ wk' = [wk EXCEPT ![w].pc = "lock_store"]
    /\ UNCHANGED <<tiles, concurrency, threads, input, store, lock, results,
                   bd, built_by, tiledata>>
    /\ UNCHANGED <<rwVars, spVars>>

AddToGraphThrows_Swallowed(w) ==
    /\ Running
    /\ wk[w].pc = "AddToGraph"
    /\ input[CurrentTile(w)] = "throws"
    /\ wk' = [wk EXCEPT ![w].pc = "lock_store"]
    /\ UNCHANGED <<tiles, concurrency, threads, input, store, lock, results,
                   bd, builder, built_by>>
    /\ UNCHANGED <<tb, tiledata>>
    /\ UNCHANGED <<rwVars, spVars>>

\* read_pbf throws std::runtime_error: nothing in build or in AddToGraph
\* catches it, so it leaves the thread function and std::terminate ends the
\* process with every thread where it is.
AddToGraphThrows(w) ==
    /\ Running
    /\ wk[w].pc = "AddToGraph"
    /\ input[CurrentTile(w)] = "throws"
    /\ wk' = [wk EXCEPT ![w].pc = "threw"]
    /\ bd' = [bd EXCEPT !.pc = "terminated"]
    /\ UNCHANGED <<tiles, concurrency, threads, input, store, lock, results,
                   builder, built_by>>
    /\ UNCHANGED <<tb, tiledata>>
    /\ UNCHANGED <<rwVars, spVars>>

LockStore(w) ==
    /\ Running
    /\ wk[w].pc = "lock_store"
    /\ mutex_lock(w)
    /\ wk' = [wk EXCEPT ![w].pc = "store"]
    /\ UNCHANGED <<tiles, concurrency, threads, input, store, results,
                   bd, builder, built_by>>
    /\ UNCHANGED <<tb, tiledata>>
    /\ UNCHANGED <<rwVars, spVars>>

\* tilebuilder.StoreTileData(), lock.unlock() and ++tile_start
StoreTileData(w) ==
    /\ Running
    /\ wk[w].pc = "store"
    /\ store' = [store EXCEPT ![CurrentTile(w)] = builder[w]]
    /\ tiledata' = [tiledata EXCEPT ![CurrentTile(w)] = tb[w]]
    /\ mutex_unlock(w)
    /\ wk' = [wk EXCEPT ![w].pc = "loop", ![w].tile_start = @ + 1]
    /\ UNCHANGED <<tiles, concurrency, threads, input, results, bd, builder,
                   built_by, tb>>
    /\ UNCHANGED <<rwVars, spVars>>

\* results.set_value({}) after the last tile of the range
SetValue(w) ==
    /\ Running
    /\ wk[w].pc = "loop"
    /\ wk[w].tile_start = wk[w].tile_end
    /\ results' = [results EXCEPT ![w] = "value"]
    /\ wk' = [wk EXCEPT ![w].pc = "returned"]
    /\ UNCHANGED <<tiles, concurrency, threads, input, store, lock, bd, builder, built_by>>
    /\ UNCHANGED <<tb, tiledata>>
    /\ UNCHANGED <<rwVars, spVars>>

Inputs == {"ok", "missing", "unparsable", "throws"}

Init ==
    /\ tiles \in 0..MaxTiles
    /\ concurrency \in 0..MaxConcurrency
    /\ threads = 0
    /\ input \in [1..tiles -> Inputs]
    /\ store = [t \in 1..tiles |-> "road"]
    /\ lock = 0
    /\ results = <<>>
    /\ bd = [pc |-> "Enumerate", floor |-> 0, at_ceiling |-> 0, tile_end |-> 0,
             i |-> 0, k |-> 0]
    /\ wk = <<>>
    /\ builder = <<>>
    /\ built_by = [t \in 1..tiles |-> {}]
    /\ tb = <<>>
    /\ \E counts \in RoadNodeCounts :
         tiledata = [t \in 1..tiles |-> TileData(counts[t])]
    /\ IdleRewrite
    /\ IdlePairs

Next ==
    \/ Enumerate
    \/ NoTransitTiles
    \/ Divvy
    \/ SpawnThread
    \/ SpawnDone
    \/ Join
    \/ JoinDone
    \/ GetResult
    \/ Finished
    \/ \E w \in Workers : LoadFails(w)
    \/ \E w \in Workers : LoadTransit(w)
    \/ \E w \in Workers : LockRead(w)
    \/ \E w \in Workers : OpenBuilder(w)
    \/ \E w \in Workers : AddStops(w)
    \/ \E w \in Workers : AddToGraph(w)
    \/ \E w \in Workers : AddToGraphThrows(w)
    \/ \E w \in Workers : LockStore(w)
    \/ \E w \in Workers : StoreTileData(w)
    \/ \E w \in Workers : SetValue(w)

Spec == Init /\ [][Next]_vars

-----------------------------------------------------------------------------
(* Properties of Build *)

Returned(w) == wk[w].pc = "returned"

\* C6: a worker that has left build, by the end of its range or by an early
\* return on a missing or unreadable transit file, has fulfilled its promise,
\* so that the main thread's wait on that result ends and Build returns.
C6_PromiseFulfilled ==
    \A w \in Workers : Returned(w) => results[w] \in {"value", "exception"}

\* C7: an exception thrown inside a worker's pipeline is delivered to the
\* main thread through the worker's promise, and the other threads go on.
C7_ExceptionInPromise ==
    \A w \in Workers :
        wk[w].pc = "threw" => results[w] = "exception" /\ Running

InCritical(w) == wk[w].pc \in {"open", "store"}

\* C8: at most one worker is between lock() and unlock() (opening a builder
\* or storing a tile); the mutex is held by exactly the worker that is there,
\* so it is not held in the build phase nor after a section is left.
C8_MutualExclusion ==
    /\ \A v, w \in Workers : InCritical(v) /\ InCritical(w) => v = w
    /\ \A w \in Workers : InCritical(w) <=> lock = w
    /\ lock \in {0} \cup Workers

C8_Witness ==
    \E v, w \in Workers :
        /\ v # w
        /\ InCritical(v)
        /\ wk[v].pc = "store"
        /\ wk[w].pc \in {"lock_read", "lock_store"}

Failed(w) ==
    \/ wk[w].pc = "threw"
    \/ Returned(w) /\ wk[w].tile_start # wk[w].tile_end

\* C9: a tile whose work failed before the commit (transit file missing,
\* unreadable or unparsable, or an exception in the pipeline) is stored as it
\* was, and no half-built builder content is ever stored.
C9_FailedTileUnchanged ==
    /\ \A t \in 1..tiles : store[t] \in {"road", "transit"}
    /\ \A t \in 1..tiles : input[t] # "ok" => store[t] = "road"
    /\ \A w \in Workers : Failed(w) => store[CurrentTile(w)] = "road"

C9_Witness ==
    \E v, w \in Workers :
        /\ wk[v].pc = "threw"
        /\ builder[v] = "stops_added"
        /\ store[CurrentTile(v)] = "road"
        /\ Returned(w)
        /\ Failed(w)
        /\ \E t \in 1..tiles : store[t] = "transit"

\* the tiles handed to worker w
TileRange(w) == (wk[w].first + 1)..wk[w].tile_end

\* C10: once the threads are started, the ranges handed to workers 1..N, N
\* the larger of 1 and the configured concurrency, are contiguous, disjoint
\* and cover the T tiles, the first T mod N of them hold T div N + 1 tiles and
\* the others T div N, and no tile is opened by a worker outside its range
\* nor by two workers.
C10_Partition ==
    /\ bd.pc \in {"join", "results", "done"} /\ tiles > 0 =>
         /\ threads = Max(1, concurrency)
         /\ Workers = 1..threads
         /\ wk[1].first = 0
         /\ wk[threads].tile_end = tiles
         /\ \A w \in 1..(threads - 1) : wk[w].tile_end = wk[w + 1].first
         /\ \A w \in Workers :
                Cardinality(TileRange(w)) =
                    IF w <= tiles % threads
                    THEN (tiles \div threads) + 1
                    ELSE tiles \div threads
         /\ \A v, w \in Workers : v # w => TileRange(v) \cap TileRange(w) = {}
         /\ UNION {TileRange(w) : w \in Workers} = 1..tiles
    /\ \A t \in 1..tiles :
         /\ Cardinality(built_by[t]) <= 1
         /\ \A w \in built_by[t] : t \in TileRange(w)

C10_Witness ==
    /\ bd.pc = "done"
    /\ tiles = 3
    /\ threads = 2
    /\ Cardinality(TileRange(1)) = 2
    /\ Cardinality(TileRange(2)) = 1
    /\ \A t \in 1..tiles : Cardinality(built_by[t]) = 1


\* the transit edges a rewrite of tile t has produced: those of the stored
\* tile and those of a builder that is through AddToGraph
EdgeSets(t) ==
    {tiledata[t].endnodes : x \in {t} \cap {y \in 1..tiles : store[y] = "transit"}}
    \cup {tb[w].endnodes : w \in {v \in Workers :
                                    /\ wk[v].pc \in {"lock_store", "store"}
                                    /\ CurrentTile(v) = t}}

\* the indexes at which a rewrite of tile u has placed the node of its stop 0
Placements(u) ==
    {tiledata[u].stop_node : x \in {u} \cap {y \in 1..tiles : store[y] = "transit"}}
    \cup {tb[w].stop_node : w \in {v \in Workers :
                                     /\ wk[v].pc \in {"lock_store", "store"}
                                     /\ CurrentTile(v) = u}}

\* C11: from the moment Build has enumerated the tiles, tile_node_counts holds
\* the road-node count of every eligible tile as it was before any rewrite;
\* whatever the order in which the workers run, a transit edge that leads to a
\* stop of another tile of the build set ends at the index where that tile's
\* own rewrite places the stop's node, and a line to a tile outside the build
\* set has no edge.
C11_CrossTileEndNode ==
    bd.pc # "Enumerate" =>
        /\ DOMAIN tile_node_counts = 1..tiles
        /\ \A t \in 1..tiles :
               /\ store[t] = "road" => tile_node_counts[t] = tiledata[t].nodes
               /\ \A p \in Placements(t) : p = tile_node_counts[t]
               /\ \A ends \in EdgeSets(t) :
                      /\ DOMAIN ends = DestTiles(t) \cap (1..tiles)
                      /\ \A u \in DOMAIN ends :
                             \A p \in Placements(u) : ends[u] = p

C11_Witness ==
    /\ bd.pc = "done"
    /\ threads = 1
    /\ tiles >= 2
    /\ \A t \in 1..tiles : store[t] = "transit"
    /\ tile_node_counts[1] # tile_node_counts[2]
    /\ tiledata[2].endnodes[1] = tiledata[1].stop_node
    /\ tiledata[1].endnodes[2] = tiledata[2].stop_node


\* C19: a tile whose transit input fails to load does not stop the others:
\* once every worker has left build, every tile whose own input loads,
\* the tiles after the failed one in the same worker's range included, has
\* been built and stored.
C19_OtherTilesBuilt ==
    (Running /\ Workers # {} /\ \A w \in Workers : Returned(w)) =>
        \A t \in 1..tiles : input[t] = "ok" => store[t] = "transit"

=============================================================================
